---- MODULE Spec2Model ----
(***************************************************************************)
(* Model of egg_generator.py: one Streamlit rerun of main() reads the four *)
(* shape parameters from the text boxes, draws the 2D preview and, when    *)
(* the "Generate 3D Model" button was pressed, runs generate_3d_model and  *)
(* the write / read / delete export of the transient STL file.             *)
(*                                                                         *)
(* Numbers.  The source computes in IEEE doubles.  The model computes in   *)
(* fixed point with Scale units per millimetre, every division truncated   *)
(* toward zero; the two non-finite outcomes numpy produces (a division by  *)
(* zero, 0 * inf) are kept as the values Inf (an infinity of either sign)  *)
(* and NaN.  Angles are counted in degrees (np.pi is HalfTurn) and the     *)
(* cosine is tabulated at the multiples of 15 degrees, which are the only  *)
(* angles the grids the model follows contain.                             *)
(***************************************************************************)
EXTENDS Integers, Sequences, FiniteSets

VARIABLES
    pc,             \* position of the rerun in main() / generate_3d_model
    reqs,           \* number of reruns started so far
    B, L, D_L4, n,  \* float(B_text), float(L_text), float(D_L4_text), float(n_text)
    y, y_scaled,    \* generate_2d_preview: raw and rescaled profile samples
    num_l_points, num_w_points,   \* generate_3d_model, lines 93-94
    x,              \* cosine-spaced axial positions, line 97
    n_theta, n_x,   \* Theta.shape, line 116
    R, R_scaled,    \* row-major (flattened) n_theta x n_x arrays, lines 102, 108
    vertices,       \* line 113
    faces,          \* line 115-123
    vectors,        \* egg_mesh.vectors, lines 125-128
    temp,           \* this rerun's NamedTemporaryFile on disk: <<>> absent, <<file>>
    leaked,         \* transient files that earlier reruns left on disk
    stl_file,       \* generate_3d_model returned temp.name to main
    stl_data,       \* <<>> is None, <<content>> is the bytes read back
    offered         \* the download button was rendered with stl_data

vars == <<pc, reqs, B, L, D_L4, n, y, y_scaled, num_l_points, num_w_points, x,
          n_theta, n_x, R, R_scaled, vertices, faces, vectors, temp, leaked,
          stl_file, stl_data, offered>>

(***************************************************************************)
(* Bounds of the model.                                                    *)
(***************************************************************************)
\* reruns followed in one behaviour
MaxRequests == 2
\* the model follows the mesh builder past its sample counts only for grids
\* of at most MaxPoints samples per axis
MaxPoints == 5
\* samples of the 2D preview (the source takes 1000, line 55; an even number)
PreviewPoints == 4

\* Values typed into the text boxes (any float is accepted, lines 200-207).
\* The non-positive lengths and widths are the ones that give small grids.
LValues == {-44, -43, -41, -40, -39, -38, 0, 10}
BValues == {-44, -41, -40, -39, -38, 10}
DValues == {2, -100}
NValues == {2, 20}

(***************************************************************************)
(* Fixed-point arithmetic with the non-finite values of numpy.             *)
(***************************************************************************)
Scale == 10 * 100
HalfTurn == 12 * 15

Abs(a) == IF a < 0 THEN -a ELSE a

\* quotient truncated toward zero (b # 0)
TDiv(a, b) ==
    IF (a >= 0) = (b > 0) THEN Abs(a) \div Abs(b) ELSE -(Abs(a) \div Abs(b))

Num(v) == [k |-> "num", v |-> v]
Inf == [k |-> "inf", v |-> 0]
NaN == [k |-> "nan", v |-> 0]

\* a * b on doubles: nan absorbs, 0 * inf is nan
FMul(a, b) ==
    IF a.k = "nan" \/ b.k = "nan" THEN NaN
    ELSE IF a.k = "inf" \/ b.k = "inf"
         THEN IF (a.k = "num" /\ a.v = 0) \/ (b.k = "num" /\ b.v = 0) THEN NaN ELSE Inf
         ELSE Num(TDiv(a.v * b.v, Scale))

\* a / b on numpy doubles: x / 0 is inf (a RuntimeWarning, no exception),
\* 0 / 0 is nan
FDiv(a, b) ==
    IF a.k = "nan" \/ b.k = "nan" THEN NaN
    ELSE IF a.k = "inf" THEN (IF b.k = "inf" THEN NaN ELSE Inf)
    ELSE IF b.k = "inf" THEN Num(0)
    ELSE IF b.v = 0 THEN (IF a.v = 0 THEN NaN ELSE Inf)
    ELSE Num(TDiv(a.v * Scale, b.v))

\* floor of the square root of a natural number, by bisection on lo..hi
RECURSIVE SqrtBetween(_, _, _)
SqrtBetween(m, lo, hi) ==
    IF lo >= hi THEN lo
    ELSE LET mid == (lo + hi + 1) \div 2
         IN  IF mid * mid <= m THEN SqrtBetween(m, mid, hi)
             ELSE SqrtBetween(m, lo, mid - 1)

ISqrt(m) == SqrtBetween(m, 0, Scale)

RECURSIVE SeqMax(_)
SeqMax(s) ==
    IF Len(s) = 1 THEN s[1]
    ELSE LET m == SeqMax(Tail(s)) IN IF s[1] > m THEN s[1] ELSE m

\* np.max of a non-empty array: nan if any element is nan
NpMax(s) ==
    IF \E i \in 1..Len(s) : s[i].k = "nan" THEN NaN
    ELSE IF \E i \in 1..Len(s) : s[i].k = "inf" THEN Inf
    ELSE Num(SeqMax([i \in 1..Len(s) |-> s[i].v]))

\* np.linspace(start, stop, num) for num >= 0, on integers
Linspace(start, stop, num) ==
    [m \in 1..num |->
        IF num = 1 THEN start ELSE start + TDiv((m - 1) * (stop - start), num - 1)]

\* cos of a multiple of 15 degrees, in units of 1/Scale
CosTable == <<1000, 966, 866, 707, 500, 259, 0>>
Cos(d) ==
    LET e == d % (2 * HalfTurn)
        f == IF e > HalfTurn THEN 2 * HalfTurn - e ELSE e
    IN  IF 2 * f > HalfTurn THEN -CosTable[((HalfTurn - f) \div 15) + 1]
        ELSE CosTable[(f \div 15) + 1]
Sin(d) == Cos(d + 3 * (HalfTurn \div 2))

(***************************************************************************)
(* egg_equation (lines 35-41) at one sample xv (fixed point) for L # 0;    *)
(* with L = 0 line 38 divides two Python floats and raises.                *)
(***************************************************************************)
EggRaises(l) == l = 0

PolyFactor(xv, l, d, nn) ==
    LET a == TDiv(l * Scale, 2)
        k == TDiv(d * Scale, l) - TDiv(Scale, 2)
        c == TDiv(nn * Scale, 10)
        u == TDiv(xv * Scale, a)
        u2 == TDiv(u * u, Scale)
    IN  Scale + TDiv(c * u, Scale) + TDiv(k * u2, Scale)

egg_equation(xv, b, l, d, nn) ==
    LET a == TDiv(l * Scale, 2)
        hb == TDiv(b * Scale, 2)
        u == TDiv(xv * Scale, a)
        u2 == TDiv(u * u, Scale)
        root == ISqrt((Scale - u2) * Scale)
    IN  Num(TDiv(TDiv(hb * root, Scale) * PolyFactor(xv, l, d, nn), Scale))

\* the rescale of lines 59-62 and 105-108 applied to the samples s
ScaleFactor(s, b) == FDiv(Num(b * Scale), FMul(NpMax(s), Num(2 * Scale)))
Rescale(s, b) ==
    LET scale_factor == ScaleFactor(s, b)
    IN  [i \in 1..Len(s) |-> FMul(s[i], scale_factor)]

(***************************************************************************)
(* generate_3d_model, lines 93-128.                                        *)
(***************************************************************************)
\* nearest integer to num / den (den > 0), ties to the even one: Python's round()
Round(num, den) ==
    LET fl == IF num >= 0 THEN num \div den ELSE -((-num + den - 1) \div den)
        twice == 2 * (num - fl * den)
    IN  IF twice < den THEN fl
        ELSE IF twice > den THEN fl + 1
        ELSE IF fl % 2 = 0 THEN fl ELSE fl + 1

\* the sample count as round(size * 1.16) + 50 instead of the truncation
NumPointsRounded(size) == Round(size * 116, 100) + 50

\* int((size * 1.16) + 50): int() truncates toward zero
NumPoints(size) == TDiv(size * 116 + 50 * 100, 100)

\* line 96-97: t = linspace(0, pi, num); x = (L/2) * cos(t)
AxialPositions(l, num) ==
    LET t == Linspace(0, HalfTurn, num)
    IN  [j \in 1..num |-> TDiv(TDiv(l * Scale, 2) * Cos(t[j]), Scale)]

\* line 99: theta = linspace(0, 2*pi, num)
Angles(num) == Linspace(0, 2 * HalfTurn, num)

\* lines 100-102: R = egg_equation(X) on the meshgrid, flattened row-major
\* (row i is angle i, column j is axial position j)
GridRadii(xs, nt, b, l, d, nn) ==
    [q \in 1..(nt * Len(xs)) |->
        egg_equation(xs[((q - 1) % Len(xs)) + 1], b, l, d, nn)]

\* lines 110-113: vertices = column_stack([X.flatten(), Y.flatten(), Z.flatten()])
Vertices(xs, nt, rs) ==
    LET th == Angles(nt)
    IN  [q \in 1..(nt * Len(xs)) |->
            LET i == (q - 1) \div Len(xs)
                j == (q - 1) % Len(xs)
            IN  << Num(xs[j + 1]),
                   FMul(rs[q], Num(Cos(th[i + 1]))),
                   FMul(rs[q], Num(Sin(th[i + 1]))) >>]

\* variants of QuadFaces with one slip each: v3 taken equal to v2, the two
\* triangles emitted in the other order, the second triangle wound the other way
QuadFacesRepeated(i, j, nx) ==
    LET v0 == i * nx + j
        v1 == v0 + 1
        v2 == (i + 1) * nx + j
        v3 == v2
    IN  << <<v0, v1, v2>>, <<v1, v3, v2>> >>

QuadFacesSwapped(i, j, nx) ==
    LET v0 == i * nx + j
        v1 == v0 + 1
        v2 == (i + 1) * nx + j
        v3 == v2 + 1
    IN  << <<v1, v3, v2>>, <<v0, v1, v2>> >>

QuadFacesFlipped(i, j, nx) ==
    LET v0 == i * nx + j
        v1 == v0 + 1
        v2 == (i + 1) * nx + j
        v3 == v2 + 1
    IN  << <<v0, v1, v2>>, <<v1, v2, v3>> >>

\* lines 119-123: the two triangles of quad (i, j); indices count from 0
QuadFaces(i, j, nx) ==
    LET v0 == i * nx + j
        v1 == v0 + 1
        v2 == (i + 1) * nx + j
        v3 == v2 + 1
    IN  << <<v0, v1, v2>>, <<v1, v3, v2>> >>

\* lines 117-118: for i in range(n_theta - 1): for j in range(n_x - 1)
RECURSIVE FacesLoop(_, _, _, _, _)
FacesLoop(i, j, nt, nx, acc) ==
    IF i >= nt - 1 THEN acc
    ELSE IF j >= nx - 1 THEN FacesLoop(i + 1, 0, nt, nx, acc)
    ELSE FacesLoop(i, j + 1, nt, nx, acc \o QuadFaces(i, j, nx))

\* variants of Triangulate: the outer loop run one ring too far, and the seam
\* closed by sharing the indices of ring 0 instead of keeping the last ring
TriangulateOffByOne(nt, nx) == FacesLoop(0, 0, nt + 1, nx, <<>>)

TriangulateWrapped(nt, nx) ==
    LET fs == FacesLoop(0, 0, nt, nx, <<>>)
    IN  [f \in 1..Len(fs) |-> [m \in 1..3 |-> fs[f][m] % ((nt - 1) * nx)]]

Triangulate(nt, nx) == FacesLoop(0, 0, nt, nx, <<>>)

\* lines 125-128: egg_mesh.vectors[i][j] = vertices[f[j], :]
FillMesh(fs, vs) ==
    [f \in 1..Len(fs) |-> [m \in 1..3 |-> vs[fs[f][m] + 1]]]

(***************************************************************************)
(* generate_2d_preview, lines 55-62.                                       *)
(***************************************************************************)
PreviewPositions(l) ==
    Linspace(TDiv(-l * Scale, 2), TDiv(l * Scale, 2), PreviewPoints)

PreviewRadii(b, l, d, nn) ==
    LET xs == PreviewPositions(l)
    IN  [m \in 1..PreviewPoints |-> egg_equation(xs[m], b, l, d, nn)]

(***************************************************************************)
(* The rerun.                                                              *)
(***************************************************************************)
Init ==
    /\ pc = "idle"
    /\ reqs = 0
    /\ B = 50 /\ L = 70 /\ D_L4 = 25 /\ n = 2      \* lines 147-150
    /\ y = <<>> /\ y_scaled = <<>>
    /\ num_l_points = 0 /\ num_w_points = 0
    /\ x = <<>> /\ n_theta = 0 /\ n_x = 0
    /\ R = <<>> /\ R_scaled = <<>>
    /\ vertices = <<>> /\ faces = <<>> /\ vectors = <<>>
    /\ temp = <<>> /\ leaked = 0
    /\ stl_file = FALSE /\ stl_data = <<>> /\ offered = FALSE

builder == <<num_l_points, num_w_points, x, n_theta, n_x, R, R_scaled,
             vertices, faces, vectors>>
params == <<B, L, D_L4, n>>
preview == <<y, y_scaled>>
export == <<temp, stl_file, stl_data, offered>>

\* lines 200-225: the text boxes are read, the volume is shown and the 2D
\* preview is drawn.  With L = 0, egg_equation raises (line 38) and the
\* rerun ends there.
Rerun(b, l, d, nn) ==
    /\ pc = "idle"
    /\ reqs < MaxRequests
    /\ reqs' = reqs + 1
    /\ B' = b /\ L' = l /\ D_L4' = d /\ n' = nn
    /\ IF EggRaises(l)
       THEN /\ pc' = "failed"
            /\ UNCHANGED preview
       ELSE /\ pc' = "rendered"
            /\ y' = PreviewRadii(b, l, d, nn)
            /\ y_scaled' = Rescale(y', b)
    /\ UNCHANGED <<builder, export, leaked>>

\* line 232: the button was not pressed; stl_data stays None (line 245)
NoClick ==
    /\ pc = "rendered"
    /\ pc' = "end"
    /\ UNCHANGED <<reqs, params, preview, builder, export, leaked>>

\* lines 232-234, 93-94: the button was pressed; the sample counts
Click ==
    /\ pc = "rendered"
    /\ pc' = "counted"
    /\ num_l_points' = NumPoints(L)
    /\ num_w_points' = NumPoints(B)
    /\ UNCHANGED <<reqs, params, preview, x, n_theta, n_x, R, R_scaled,
                   vertices, faces, vectors, export, leaked>>

\* lines 96-99: np.linspace raises ValueError for a negative sample count
GridRaises ==
    /\ pc = "counted"
    /\ num_w_points < 0 \/ num_l_points < 0 \/ EggRaises(L)
    /\ pc' = "failed"
    /\ UNCHANGED <<reqs, params, preview, builder, export, leaked>>

\* lines 96-102
Grid ==
    /\ pc = "counted"
    /\ num_w_points >= 0 /\ num_l_points >= 0 /\ ~EggRaises(L)
    /\ num_w_points <= MaxPoints /\ num_l_points <= MaxPoints
    /\ pc' = "sampled"
    /\ x' = AxialPositions(L, num_w_points)
    /\ n_theta' = num_l_points
    /\ n_x' = num_w_points
    /\ R' = GridRadii(x', num_l_points, B, L, D_L4, n)
    /\ UNCHANGED <<reqs, params, preview, num_l_points, num_w_points, R_scaled,
                   vertices, faces, vectors, export, leaked>>

\* line 105: np.max of an empty array raises ValueError
RescaleRaises ==
    /\ pc = "sampled"
    /\ Len(R) = 0
    /\ pc' = "failed"
    /\ UNCHANGED <<reqs, params, preview, builder, export, leaked>>

\* lines 105-108
RescaleGrid ==
    /\ pc = "sampled"
    /\ Len(R) > 0
    /\ pc' = "scaled"
    /\ R_scaled' = Rescale(R, B)
    /\ UNCHANGED <<reqs, params, preview, num_l_points, num_w_points, x, n_theta,
                   n_x, R, vertices, faces, vectors, export, leaked>>

\* lines 110-113
BuildVertices ==
    /\ pc = "scaled"
    /\ pc' = "vertexed"
    /\ vertices' = Vertices(x, n_theta, R_scaled)
    /\ UNCHANGED <<reqs, params, preview, num_l_points, num_w_points, x, n_theta,
                   n_x, R, R_scaled, faces, vectors, export, leaked>>

\* lines 115-123
BuildFaces ==
    /\ pc = "vertexed"
    /\ pc' = "triangulated"
    /\ faces' = Triangulate(n_theta, n_x)
    /\ UNCHANGED <<reqs, params, preview, num_l_points, num_w_points, x, n_theta,
                   n_x, R, R_scaled, vertices, vectors, export, leaked>>

\* lines 125-128
BuildMesh ==
    /\ pc = "triangulated"
    /\ pc' = "meshed"
    /\ vectors' = FillMesh(faces, vertices)
    /\ UNCHANGED <<reqs, params, preview, num_l_points, num_w_points, x, n_theta,
                   n_x, R, R_scaled, vertices, faces, export, leaked>>

\* line 130: NamedTemporaryFile(delete=False) creates an empty file
CreateTemp ==
    /\ pc = "meshed"
    /\ pc' = "created"
    /\ temp' = << [written |-> FALSE, facets |-> <<>>] >>
    /\ UNCHANGED <<reqs, params, preview, builder, leaked, stl_file, stl_data, offered>>

\* line 131: one binary facet record per row of egg_mesh.vectors
Save ==
    /\ pc = "created"
    /\ pc' = "saved"
    /\ temp' = << [written |-> TRUE, facets |-> vectors] >>
    /\ UNCHANGED <<reqs, params, preview, builder, leaked, stl_file, stl_data, offered>>

\* line 131: the write fails (disk full, ...); the exception leaves the with
\* block, which closes the handle and keeps the file (delete=False)
SaveFails ==
    /\ pc = "created"
    /\ pc' = "failed"
    /\ UNCHANGED <<reqs, params, preview, builder, export, leaked>>

\* line 132
Return ==
    /\ pc = "saved"
    /\ pc' = "returned"
    /\ stl_file' = TRUE
    /\ UNCHANGED <<reqs, params, preview, builder, leaked, temp, stl_data, offered>>

\* lines 237-238
Read ==
    /\ pc = "returned"
    /\ pc' = "read"
    /\ stl_data' = << temp[1].facets >>
    /\ UNCHANGED <<reqs, params, preview, builder, leaked, temp, stl_file, offered>>

\* lines 237-238: open() or read() raises
ReadFails ==
    /\ pc = "returned"
    /\ pc' = "failed"
    /\ UNCHANGED <<reqs, params, preview, builder, export, leaked>>

\* line 241
Remove ==
    /\ pc = "read"
    /\ pc' = "removed"
    /\ temp' = <<>>
    /\ UNCHANGED <<reqs, params, preview, builder, leaked, stl_file, stl_data, offered>>

\* lines 243-256
Offer ==
    /\ pc = "removed"
    /\ stl_data # <<>>
    /\ pc' = "end"
    /\ offered' = TRUE
    /\ UNCHANGED <<reqs, params, preview, builder, leaked, temp, stl_file, stl_data>>

\* the script run is over (normally or by an exception); the next rerun
\* starts with fresh locals, and a file still on disk stays there
Finish ==
    /\ pc \in {"end", "failed"}
    /\ pc' = "idle"
    /\ leaked' = leaked + Len(temp)
    /\ temp' = <<>>
    /\ y' = <<>> /\ y_scaled' = <<>>
    /\ num_l_points' = 0 /\ num_w_points' = 0
    /\ x' = <<>> /\ n_theta' = 0 /\ n_x' = 0
    /\ R' = <<>> /\ R_scaled' = <<>>
    /\ vertices' = <<>> /\ faces' = <<>> /\ vectors' = <<>>
    /\ stl_file' = FALSE /\ stl_data' = <<>> /\ offered' = FALSE
    /\ B' = 50 /\ L' = 70 /\ D_L4' = 25 /\ n' = 2
    /\ UNCHANGED reqs

Next ==
    \/ \E b \in BValues, l \in LValues, d \in DValues, nn \in NValues : Rerun(b, l, d, nn)
    \/ NoClick
    \/ Click
    \/ GridRaises
    \/ Grid
    \/ RescaleRaises
    \/ RescaleGrid
    \/ BuildVertices
    \/ BuildFaces
    \/ BuildMesh
    \/ CreateTemp
    \/ Save
    \/ SaveFails
    \/ Return
    \/ Read
    \/ ReadFails
    \/ Remove
    \/ Offer
    \/ Finish

Spec == Init /\ [][Next]_vars

(***************************************************************************)
(* Properties.                                                             *)
(***************************************************************************)
\* generate_3d_model has passed line 123 in this rerun
MeshBuilt ==
    \/ pc \in {"triangulated", "meshed", "created", "saved", "returned", "read", "removed"}
    \/ offered
    \/ (pc = "failed" /\ temp # <<>>)

\* generate_3d_model has passed line 128 in this rerun
MeshFilled == MeshBuilt /\ pc # "triangulated"

FaceIds == 1..Len(faces)

\* C1: for grid dimensions n_theta and n_x of at least 2, the mesh has
\* n_theta*n_x vertices and 2*(n_theta-1)*(n_x-1) faces, and every index in
\* every face lies in [0, vertex count).
C1_MeshCounts ==
    (MeshBuilt /\ n_theta >= 2 /\ n_x >= 2) =>
        /\ Len(vertices) = n_theta * n_x
        /\ Len(faces) = 2 * (n_theta - 1) * (n_x - 1)
        /\ \A f \in FaceIds : \A m \in 1..3 :
               faces[f][m] >= 0 /\ faces[f][m] < Len(vertices)

C1_Witness == MeshBuilt /\ n_theta = 4 /\ n_x = 3 /\ Len(faces) = 12

\* C2: every face emitted by the triangulation loop references three
\* pairwise distinct vertex indices.
C2_DistinctIndices ==
    MeshBuilt =>
        \A f \in FaceIds :
            /\ faces[f][1] # faces[f][2]
            /\ faces[f][2] # faces[f][3]
            /\ faces[f][1] # faces[f][3]

C2_Witness == MeshBuilt /\ n_theta = 5 /\ n_x = 5 /\ Len(faces) = 32

\* C3: the face list is, for i = 0..n_theta-2 (outer) and j = 0..n_x-2
\* (inner), the pair (v0,v1,v2), (v1,v3,v2) with v0 = i*n_x+j, v1 = v0+1,
\* v2 = (i+1)*n_x+j, v3 = v2+1; the mesh and the exported file hold one facet
\* per face, facet k carrying the positions of face k's vertices in order.
FacetsOfFaces(facets) ==
    /\ Len(facets) = Len(faces)
    /\ \A f \in FaceIds : \A m \in 1..3 : facets[f][m] = vertices[faces[f][m] + 1]

C3_FaceOrder ==
    MeshBuilt =>
        /\ Len(faces) = 2 * (n_theta - 1) * (n_x - 1)
        /\ \A i \in 0..(n_theta - 2) : \A j \in 0..(n_x - 2) :
               LET q == i * (n_x - 1) + j
                   v0 == i * n_x + j
                   v2 == (i + 1) * n_x + j
               IN  /\ faces[2 * q + 1] = <<v0, v0 + 1, v2>>
                   /\ faces[2 * q + 2] = <<v0 + 1, v2 + 1, v2>>
        /\ MeshFilled => FacetsOfFaces(vectors)
        /\ (temp # <<>> /\ temp[1].written) => FacetsOfFaces(temp[1].facets)
        /\ stl_data # <<>> => FacetsOfFaces(stl_data[1])

C3_Witness ==
    /\ pc = "saved" /\ n_theta = 3 /\ n_x = 4
    /\ temp[1].written /\ Len(temp[1].facets) = 12
    /\ \E f \in FaceIds : \E m \in 1..3 : vectors[f][m][2].k = "num" /\ vectors[f][m][2].v # 0

\* C4: consistent winding: no directed edge occurs in more than one face, and
\* every edge shared by two faces (the diagonal of a quad, the edge between
\* axial neighbours, the edge between angular neighbours) is traversed once
\* in each direction.
DirEdges(f) == {<<f[1], f[2]>>, <<f[2], f[3]>>, <<f[3], f[1]>>}
AllDirEdges == UNION {DirEdges(faces[f]) : f \in FaceIds}
BothWays(a, b) == <<a, b>> \in AllDirEdges /\ <<b, a>> \in AllDirEdges

C4_Winding ==
    MeshBuilt =>
        /\ \A f \in FaceIds : Cardinality(DirEdges(faces[f])) = 3
        /\ \A f, g \in FaceIds : f # g => DirEdges(faces[f]) \cap DirEdges(faces[g]) = {}
        /\ \A i \in 0..(n_theta - 2) : \A j \in 0..(n_x - 2) :
               LET v0 == i * n_x + j
                   v1 == v0 + 1
                   v2 == (i + 1) * n_x + j
                   v3 == v2 + 1
               IN  /\ BothWays(v1, v2)
                   /\ j + 1 <= n_x - 2 => BothWays(v1, v3)
                   /\ i + 1 <= n_theta - 2 => BothWays(v2, v3)

C4_Witness == MeshBuilt /\ n_theta = 3 /\ n_x = 3 /\ BothWays(4, 5) /\ BothWays(4, 7)

\* C5: no face wraps the angular seam by index: every face takes its vertices
\* from two consecutive rings i and i+1 <= n_theta-1, no face holds a vertex
\* of the last ring and one of ring 0 when n_theta > 2, and the last ring
\* keeps its own n_x vertices, which the faces of the last strip use.
Ring(v) == v \div n_x

C5_NoSeamWrap ==
    (MeshBuilt /\ n_theta >= 2 /\ n_x >= 2) =>
        /\ \A f \in FaceIds : \E i \in 0..(n_theta - 2) :
               \A m \in 1..3 : Ring(faces[f][m]) \in {i, i + 1}
        /\ n_theta > 2 =>
               \A f \in FaceIds :
                   ~(/\ \E m \in 1..3 : Ring(faces[f][m]) = n_theta - 1
                     /\ \E m \in 1..3 : Ring(faces[f][m]) = 0)
        /\ Len(vertices) = n_theta * n_x
        /\ \A j \in 0..(n_x - 1) :
               \E f \in FaceIds : \E m \in 1..3 : faces[f][m] = (n_theta - 1) * n_x + j

C5_Witness ==
    /\ MeshBuilt /\ n_theta = 4 /\ n_x = 2
    /\ \E f \in FaceIds : \E m \in 1..3 : Ring(faces[f][m]) = 3

\* C6 (as claimed): with B <= 0 or L <= 0 the mesh builder ends in an error
\* and produces neither a mesh nor an export artifact.
C6_NonPositiveRejected ==
    (B <= 0 \/ L <= 0) =>
        /\ vertices = <<>> /\ faces = <<>> /\ vectors = <<>>
        /\ temp = <<>> /\ stl_data = <<>> /\ ~offered

\* C7 (as claimed): for L > 0, B > 0, n >= 0 and any D_L4, egg_equation
\* returns r >= 0 at every sample of [-L/2, L/2], and r = 0 at both ends.
C7_RadiusNonNegative ==
    (Len(y) > 0 /\ L > 0 /\ B > 0 /\ n >= 0) =>
        /\ \A m \in 1..Len(y) : y[m].k = "num" /\ y[m].v >= 0
        /\ y[1].v = 0 /\ y[Len(y)].v = 0

\* C8 (as claimed): for valid parameters, after the rescale twice the maximum
\* of the scaled radii is B (to within one percent, the model's precision),
\* in the 2D preview and in the 3D mesh.
TwiceMaxIs(s, b) ==
    LET w == FMul(NpMax(s), Num(2 * Scale))
    IN  w.k = "num" /\ 100 * Abs(w.v - b * Scale) <= Abs(b * Scale)

C8_RescaledWidth ==
    (L > 0 /\ B > 0 /\ n >= 0) =>
        /\ Len(y_scaled) > 0 => TwiceMaxIs(y_scaled, B)
        /\ Len(R_scaled) > 0 => TwiceMaxIs(R_scaled, B)

C10_TransientFileRemoved ==
    /\ stl_data # <<>> => (stl_file /\ stl_data[1] = vectors)
    /\ offered => (stl_data # <<>> /\ temp = <<>>)
    /\ pc \in {"end", "failed"} => temp = <<>>
    /\ leaked = 0

====
